---- MODULE Spec2Model ----
(***************************************************************************)
(* Model of the university chatbot back end: the retrieval pipeline        *)
(* RAGService (app/services/rag_service.py), the document handlers of      *)
(* app/api/routes.py and the chat handlers of app/chat/routes.py.          *)
(*                                                                         *)
(* Texts are sequences of one-character strings.  Python slicing and       *)
(* str.strip() are modelled as Python defines them.                        *)
(***************************************************************************)
EXTENDS Integers, Sequences, FiniteSets, TLC

\* ------------------------------------------------------------------------
\* Bounds of the model
\* ------------------------------------------------------------------------
MaxLen == 6
MaxChunkSize == 5
MemCap == 8

\* ------------------------------------------------------------------------
\* Characters and texts
\* ------------------------------------------------------------------------
Whitespace == {" ", "\n"}
SentenceEnd == {".", "!", "?"}
Alphabet == {"a", " ", "."}

RECURSIVE SeqsUpTo(_, _)
SeqsUpTo(S, n) ==
    IF n = 0 THEN {<<>>}
    ELSE LET shorter == SeqsUpTo(S, n - 1)
         IN shorter \cup {Append(s, c) : s \in {t \in shorter : Len(t) = n - 1}, c \in S}

Texts == SeqsUpTo(Alphabet, MaxLen)

Max(a, b) == IF a >= b THEN a ELSE b
Min(a, b) == IF a <= b THEN a ELSE b

\* Python's normalisation of one slice bound against a sequence of length n.
SliceIndex(x, n) == IF x < 0 THEN Max(x + n, 0) ELSE Min(x, n)

\* text[s:e] with Python semantics (0-based, negative bounds count from the end).
PySlice(T, s, e) ==
    LET lo == SliceIndex(s, Len(T))
        hi == SliceIndex(e, Len(T))
    IN IF lo < hi THEN SubSeq(T, lo + 1, hi) ELSE <<>>

StripNone(T) == T

\* str.strip(): drop leading and trailing whitespace.
Strip(T) ==
    LET nonws == {i \in 1..Len(T) : T[i] \notin Whitespace}
    IN IF nonws = {} THEN <<>>
       ELSE LET first == CHOOSE i \in nonws : \A j \in nonws : i <= j
                last == CHOOSE i \in nonws : \A j \in nonws : i >= j
            IN SubSeq(T, first, last)

\* ------------------------------------------------------------------------
\* RAGService._chunk_text, one iteration of the while loop
\* ------------------------------------------------------------------------
\* 0-based index of the last sentence-terminal character of window w, or -1.
LastSentenceEnd(w) ==
    LET hits == {i \in 0..(Len(w) - 1) : w[i + 1] \in SentenceEnd}
    IN IF hits = {} THEN -1 ELSE CHOOSE i \in hits : \A j \in hits : i >= j

ChunkEndLookBack(T, cs, ov, st) ==
    LET end0 == st + cs
        look_back_start == Max(st, end0 - ov)
    IN IF end0 < Len(T)
       THEN LET i == LastSentenceEnd(PySlice(T, look_back_start, end0))
            IN IF i >= 0 THEN look_back_start + i + 1 ELSE end0
       ELSE end0

\* The end offset of the chunk that starts at st.
ChunkEnd(T, cs, ov, st) ==
    LET end0 == st + cs
    IN IF end0 < Len(T)
       THEN LET i == LastSentenceEnd(PySlice(T, st, end0))
            IN IF i >= 0 THEN st + i + 1 ELSE end0
       ELSE end0

NextStartDoubleOverlap(T, cs, ov, st) ==
    LET end == ChunkEnd(T, cs, ov, st)
    IN IF end < Len(T) THEN end - 2 * ov ELSE Len(T)

\* The start offset of the next iteration.
NextStart(T, cs, ov, st) ==
    LET end == ChunkEnd(T, cs, ov, st)
    IN IF end < Len(T) THEN end - ov ELSE Len(T)

ChunkAtRaw(T, cs, ov, st) == PySlice(T, st, ChunkEnd(T, cs, ov, st))

\* The stripped chunk of the iteration that starts at st.
ChunkAt(T, cs, ov, st) == Strip(PySlice(T, st, ChunkEnd(T, cs, ov, st)))

\* The character positions (1-based) of T that text[st:end] contains.
WindowAt(T, cs, ov, st) ==
    LET lo == SliceIndex(st, Len(T))
        hi == SliceIndex(ChunkEnd(T, cs, ov, st), Len(T))
    IN (lo + 1)..hi

\* Below StartFloor every window text[start:end] is empty and, when the overlap
\* is at least the chunk size, start only decreases: the loop goes on for ever
\* without changing anything but start.  The model keeps start at the floor.
StartFloor == 0 - (MaxLen + MaxChunkSize + 1)
Saturate(st) == Max(st, StartFloor)

\* The whole while loop from offset st: "returned" with the chunk list, or
\* "diverges" when an iteration begins at an offset an earlier one began at.
RECURSIVE ChunkLoop(_, _, _, _, _, _)
ChunkLoop(T, cs, ov, st, acc, seen) ==
    IF st >= Len(T) THEN [kind |-> "returned", chunks |-> acc]
    ELSE IF st \in seen THEN [kind |-> "diverges", chunks |-> acc]
    ELSE LET chunk == ChunkAt(T, cs, ov, st)
         IN ChunkLoop(T, cs, ov, Saturate(NextStart(T, cs, ov, st)),
                      IF chunk # <<>> THEN Append(acc, chunk) ELSE acc,
                      seen \cup {st})

\* The start offsets the loop goes through from st on.
RECURSIVE Orbit(_, _, _, _, _)
Orbit(T, cs, ov, st, seen) ==
    IF st >= Len(T) \/ st \in seen THEN seen
    ELSE Orbit(T, cs, ov, Saturate(NextStart(T, cs, ov, st)), seen \cup {st})

\* What a call of _chunk_text can do.  A loop that never ends and keeps
\* appending runs out of memory: MemoryError is an Exception, the except
\* clause returns [text] ("except"), unless the process is ended first
\* ("hang", as for a loop that never ends and appends nothing).
ChunkTextOutcomes(T, cs, ov) ==
    LET run == ChunkLoop(T, cs, ov, 0, <<>>, {})
    IN IF run.kind = "returned" THEN {run}
       ELSE IF \E s \in Orbit(T, cs, ov, 0, {}) : ChunkAt(T, cs, ov, s) # <<>>
            THEN {[kind |-> "except", chunks |-> <<T>>], [kind |-> "hang", chunks |-> <<>>]}
            ELSE {[kind |-> "hang", chunks |-> <<>>]}

\* ------------------------------------------------------------------------
\* RAGService._extract_text_from_pdf
\* ------------------------------------------------------------------------
\* full_text: every page with text, each followed by a line break.
RECURSIVE ExtractText(_)
ExtractText(pages) ==
    IF pages = <<>> THEN <<>>
    ELSE LET page_text == Head(pages)
         IN (IF page_text # <<>> THEN page_text \o <<"\n">> ELSE <<>>)
            \o ExtractText(Tail(pages))

IsBlank(T) == \A i \in 1..Len(T) : T[i] \in Whitespace

\* What _extract_text_from_pdf can do: the chunk list it returns, the stage
\* that raised ("none", "extract", "chunk") and whether the text was blank.
ExtractOutcomes(openOk, pages, cs, ov) ==
    IF ~openOk
    THEN {[kind |-> "returned", chunks |-> <<>>, raised |-> "extract", blank |-> FALSE]}
    ELSE LET full_text == ExtractText(pages)
         IN IF Strip(full_text) = <<>>
            THEN {[kind |-> "returned", chunks |-> <<>>, raised |-> "none",
                   blank |-> IsBlank(full_text)]}
            ELSE {[kind |-> o.kind, chunks |-> o.chunks,
                   raised |-> IF o.kind = "except" THEN "chunk" ELSE "none",
                   blank |-> IsBlank(full_text)] :
                     o \in ChunkTextOutcomes(full_text, cs, ov)}

\* ------------------------------------------------------------------------
\* RAGService.process_pdf_document: the batch handed to collection.add
\* ------------------------------------------------------------------------
ChunkIdNoIndex(document_id, i) == document_id \o "_chunk_"

\* chunk_id = f"{document_id}_chunk_{i}"
ChunkId(document_id, i) == document_id \o "_chunk_" \o ToString(i)

NoMetadata == <<>>

\* chunk_metadata, then chunk_metadata.update(metadata): the caller's keys win.
ChunkMetadata(document_id, i, file_path, metadata) ==
    metadata @@ [document_id |-> document_id, chunk_index |-> i, source_file |-> file_path]

\* chunk_ids, chunk_texts and chunk_metadatas, entry by entry.
Batch(document_id, file_path, metadata, text_chunks) ==
    [k \in 1..Len(text_chunks) |->
        [id |-> ChunkId(document_id, k - 1),
         text |-> text_chunks[k],
         meta |-> ChunkMetadata(document_id, k - 1, file_path, metadata)]]

\* ------------------------------------------------------------------------
\* The vector index (the Chroma collection): id -> [text, meta]
\* ------------------------------------------------------------------------
EmptyIndex == <<>>

\* collection.add: one call; a record whose id is already stored is ignored.
IndexAdd(idx, batch) ==
    LET new == {k \in 1..Len(batch) : batch[k].id \notin DOMAIN idx}
        newIds == {batch[k].id : k \in new}
    IN [id \in DOMAIN idx \cup newIds |->
          IF id \in DOMAIN idx THEN idx[id]
          ELSE LET k == CHOOSE j \in new : batch[j].id = id
               IN [text |-> batch[k].text, meta |-> batch[k].meta]]

\* collection.get(where={"document_id": document_id})['ids']
IndexGetIds(idx, document_id) ==
    {id \in DOMAIN idx : idx[id].meta.document_id = document_id}

IndexDeleteFirst(idx, ids) ==
    IF ids = {} THEN idx
    ELSE LET one == CHOOSE id \in ids : TRUE IN [id \in DOMAIN idx \ {one} |-> idx[id]]

\* collection.delete(ids=ids)
IndexDelete(idx, ids) == [id \in DOMAIN idx \ ids |-> idx[id]]

\* collection.query: the k nearest stored entries that pass the filter,
\* nearest first.  The embedding is a stand-in: the number of letters.
Embed(T) == Cardinality({i \in 1..Len(T) : T[i] = "a"})
Distance(q, T) == IF Embed(q) >= Embed(T) THEN Embed(q) - Embed(T) ELSE Embed(T) - Embed(q)

Matches(entry, where) ==
    where = "none" \/ ("category" \in DOMAIN entry.meta /\ entry.meta.category = where)

RECURSIVE Nearest(_, _, _, _)
Nearest(idx, ids, q, k) ==
    IF k = 0 \/ ids = {} THEN <<>>
    ELSE LET best == CHOOSE id \in ids :
                        \A o \in ids : Distance(q, idx[id].text) <= Distance(q, idx[o].text)
         IN <<best>> \o Nearest(idx, ids \ {best}, q, k - 1)

IndexQuery(idx, q, k, where) ==
    Nearest(idx, {id \in DOMAIN idx : Matches(idx[id], where)}, q, k)

\* ------------------------------------------------------------------------
\* Configuration and inputs
\* ------------------------------------------------------------------------
TOP_K_RESULTS == 5

\* CHUNK_SIZE = 1000 and CHUNK_OVERLAP = 200 of config.py, scaled to the
\* lengths of the documents below.
Config == [CHUNK_SIZE |-> 2, CHUNK_OVERLAP |-> 1]

MaxDocs == 1
MaxProcs == 2

DocName(i) == "d" \o ToString(i)
DocIds == {DocName(i) : i \in 1..MaxDocs}
Procs == 1..MaxProcs
FilePath(document_id) == "uploads/" \o document_id

\* The uploaded PDF files, each a sequence of page texts.
PdfFiles ==
    { <<>>,
      << <<" ">> >>,
      << <<"a">> >>,
      << <<"a", ".">> >>,
      << <<".", "a">> >>,
      << <<"a">>, <<>>, <<"a", " ">> >> }

Categories == {"general", "admission"}
Queries == {<<"a">>}

UploadMetadata(category) ==
    [title |-> "t", category |-> category, original_filename |-> "f.pdf"]

\* ------------------------------------------------------------------------
\* The chat tables and requests (app/chat/routes.py)
\* ------------------------------------------------------------------------
MaxSessions == 2
MaxRequests == 2

SessionName(i) == "s" \o ToString(i)
SessionIds == {SessionName(i) : i \in 1..MaxSessions}
Requests == 1..MaxRequests

\* No applicant_data row for the session.
NoApplicant ==
    [row |-> "none", name |-> <<>>, email |-> <<>>, phone |-> <<>>,
     intended_program |-> <<>>, application_status |-> "",
     data_collection_status |-> ""]

\* No send_message request in the slot.
IdleChat ==
    [pc |-> "idle", session |-> "", content |-> <<>>, status |-> "none", text |-> FALSE,
     raised |-> "none", context |-> "none", llm |-> "none", created |-> FALSE]

\* No update_applicant_data request is running.
IdleUpdate ==
    [pc |-> "idle", session |-> "", status |-> "none", reason |-> "none",
     before |-> NoApplicant, working |-> NoApplicant]

VARIABLES
    text,           \* argument text of the running _chunk_text call
    chunk_size,     \* argument chunk_size
    chunk_overlap,  \* argument chunk_overlap
    start,          \* local start
    chunks,         \* local chunks
    windows,        \* history: the window of every chunk appended to chunks
    visited,        \* history: the start offsets of the iterations run so far
    cpc,            \* position of the call: "idle", "loop", "returned", "except", "killed"
    docs,           \* the documents table: document id -> row
    files,          \* the paths present in the upload folder
    index,          \* the Chroma collection: chunk id -> [text, meta]
    proc,           \* the process_pdf_document calls, by slot
    del,            \* the delete_document requests, by document id
    search,         \* the running search_similar_documents / get_relevant_context call
    removal,        \* the direct delete_document_chunks calls made so far
    services,       \* the module globals rag_service of api/routes.py and chat/routes.py
    pdf_pages,      \* pdf_reader.pages of the running _extract_text_from_pdf call
    full_text,      \* local full_text of that call
    epc,            \* position of that call: "idle", "chunking", "returned", "except"
    sessions,       \* the chat_sessions table: session id -> how the row came to be
    messages,       \* the chat_messages table, in commit order
    applicants,     \* the applicant_data table: session id -> row
    chat,           \* the send_message requests, by slot
    update,         \* the update_applicant_data requests made so far and the running one
    gemini_service  \* the module global gemini_service of chat/routes.py is set

chunkVars == <<text, chunk_size, chunk_overlap, start, chunks, windows, visited, cpc>>
sysVars == <<docs, files, index, proc, del>>
auxVars == <<search, removal, services>>
extractVars == <<pdf_pages, full_text, epc>>
chatVars == <<sessions, messages, applicants, chat, update, gemini_service>>
restVars == <<extractVars, chatVars>>
vars == <<chunkVars, sysVars, auxVars, restVars>>

ValidConfig == chunk_size > 0 /\ 0 <= chunk_overlap /\ chunk_overlap < chunk_size

\* ------------------------------------------------------------------------
\* Initial state
\* ------------------------------------------------------------------------
NoRow == [row |-> "none", is_processed |-> FALSE, chunk_count |-> 0]

IdleProc ==
    [pc |-> "idle", doc |-> "", path |-> "", meta |-> NoMetadata, chunks |-> <<>>,
     result |-> "none", raised |-> "none", blank |-> FALSE, rerun |-> FALSE]

IdleDel == [pc |-> "idle", ids |-> {}, status |-> "none"]

ChunkInit ==
    /\ text = <<>>
    /\ chunk_size = 1
    /\ chunk_overlap = 0
    /\ start = 0
    /\ chunks = <<>>
    /\ windows = <<>>
    /\ visited = {}
    /\ cpc = "idle"

SysInit ==
    /\ docs = [d \in DocIds |-> NoRow]
    /\ files = {}
    /\ index = EmptyIndex
    /\ proc = [p \in Procs |-> IdleProc]
    /\ del = [d \in DocIds |-> IdleDel]

\* No search_similar_documents / get_relevant_context call is running.
IdleSearch ==
    [pc |-> "idle", via |-> "none", query |-> <<>>, n_results |-> 0, filter |-> "none",
     raised |-> FALSE, hits |-> <<>>, results |-> <<>>, context |-> <<>>]

\* No delete_document_chunks call is running and none has returned.
IdleRemoval == [pc |-> "idle", doc |-> "", ids |-> {}, log |-> <<>>]

\* rag_service = None in api/routes.py and in chat/routes.py (0 stands for
\* None); no RAGService has been constructed.
NoServices == [api |-> 0, chat |-> 0, created |-> 0]

AuxInit ==
    /\ search = IdleSearch
    /\ removal = IdleRemoval
    /\ services = NoServices

\* No _extract_text_from_pdf call has read a PDF.
RestInit ==
    /\ pdf_pages = <<>>
    /\ full_text = <<>>
    /\ epc = "idle"

\* The chat tables are empty, no chat request has been made and
\* gemini_service = None (chat/routes.py:13).
ChatInit ==
    /\ sessions = [s \in SessionIds |-> "none"]
    /\ messages = <<>>
    /\ applicants = [s \in SessionIds |-> NoApplicant]
    /\ chat = [r \in Requests |-> IdleChat]
    /\ update = IdleUpdate
    /\ gemini_service = FALSE

Init == ChunkInit /\ SysInit /\ AuxInit /\ RestInit /\ ChatInit

\* ------------------------------------------------------------------------
\* RAGService._chunk_text as a step machine
\* ------------------------------------------------------------------------
\* _chunk_text(text, chunk_size, chunk_overlap) is called: lines 243-245.
ChunkCall ==
    /\ cpc = "idle"
    /\ text' \in Texts
    /\ chunk_size' \in 1..MaxChunkSize
    /\ chunk_overlap' \in 0..MaxChunkSize
    /\ start' = 0
    /\ chunks' = <<>>
    /\ windows' = <<>>
    /\ visited' = {}
    /\ cpc' = "loop"
    /\ UNCHANGED <<sysVars, auxVars, restVars>>

\* One pass through the body of the while loop.
ChunkStep ==
    /\ cpc = "loop"
    /\ start < Len(text)
    /\ Len(chunks) < MemCap
    /\ LET chunk == ChunkAt(text, chunk_size, chunk_overlap, start)
       IN /\ chunks' = IF chunk # <<>> THEN Append(chunks, chunk) ELSE chunks
          /\ windows' = IF chunk # <<>>
                        THEN Append(windows, WindowAt(text, chunk_size, chunk_overlap, start))
                        ELSE windows
    /\ start' = Saturate(NextStart(text, chunk_size, chunk_overlap, start))
    /\ visited' = visited \cup {start}
    /\ UNCHANGED <<text, chunk_size, chunk_overlap, cpc>>
    /\ UNCHANGED <<sysVars, auxVars, restVars>>

\* The loop condition fails: return chunks.
ChunkReturn ==
    /\ cpc = "loop"
    /\ start >= Len(text)
    /\ cpc' = "returned"
    /\ UNCHANGED <<text, chunk_size, chunk_overlap, start, chunks, windows, visited>>
    /\ UNCHANGED <<sysVars, auxVars, restVars>>

\* chunks.append exhausts memory: MemoryError is caught, [text] is returned.
ChunkExcept ==
    /\ cpc = "loop"
    /\ start < Len(text)
    /\ Len(chunks) >= MemCap
    /\ cpc' = "except"
    /\ chunks' = <<text>>
    /\ windows' = <<1..Len(text)>>
    /\ UNCHANGED <<text, chunk_size, chunk_overlap, start, visited>>
    /\ UNCHANGED <<sysVars, auxVars, restVars>>

\* chunks.append exhausts memory and the operating system ends the process.
ChunkKilled ==
    /\ cpc = "loop"
    /\ start < Len(text)
    /\ Len(chunks) >= MemCap
    /\ cpc' = "killed"
    /\ UNCHANGED <<text, chunk_size, chunk_overlap, start, chunks, windows, visited>>
    /\ UNCHANGED <<sysVars, auxVars, restVars>>

ChunkNext == ChunkCall \/ ChunkStep \/ ChunkReturn \/ ChunkExcept \/ ChunkKilled

ChunkSpec == Init /\ [][ChunkNext]_vars

\* ------------------------------------------------------------------------
\* upload_document and RAGService.process_pdf_document
\* ------------------------------------------------------------------------
\* The id of the next Document row: a fresh uuid.
FreshDoc == CHOOSE d \in DocIds :
                /\ docs[d].row = "none"
                /\ \A i \in 1..MaxDocs : docs[DocName(i)].row = "none" =>
                       \E j \in 1..i : d = DocName(j)

FreeSlot(p) == proc[p].pc = "idle" /\ \A q \in Procs : q < p => proc[q].pc # "idle"

\* upload_document up to the commit of the new Document row (lines 61-109);
\* process_pdf_document is then called with the row's id.
Upload(p, category) ==
    /\ FreeSlot(p)
    /\ \E d \in DocIds : docs[d].row = "none"
    /\ LET d == FreshDoc
       IN /\ docs' = [docs EXCEPT ![d] = [row |-> "present", is_processed |-> FALSE,
                                           chunk_count |-> 0]]
          /\ files' = files \cup {FilePath(d)}
          /\ proc' = [proc EXCEPT ![p] = [IdleProc EXCEPT !.pc = "extract", !.doc = d,
                                              !.path = FilePath(d),
                                              !.meta = UploadMetadata(category)]]
    /\ UNCHANGED <<index, del>>

\* text_chunks = self._extract_text_from_pdf(file_path); no chunks: return False.
ProcExtract(p) ==
    /\ proc[p].pc = "extract"
    /\ \E pages \in PdfFiles, openOk \in BOOLEAN :
        /\ openOk => proc[p].path \in files
        /\ \E o \in ExtractOutcomes(openOk, pages, Config.CHUNK_SIZE, Config.CHUNK_OVERLAP) :
              proc' = [proc EXCEPT ![p] =
                         [@ EXCEPT !.chunks = o.chunks,
                                   !.raised = o.raised,
                                   !.blank = o.blank,
                                   !.pc = IF o.kind = "hang" THEN "hung"
                                          ELSE IF o.chunks = <<>> THEN "done" ELSE "add",
                                   !.result = IF o.kind # "hang" /\ o.chunks = <<>>
                                              THEN "false" ELSE "none"]]
    /\ UNCHANGED <<docs, files, index, del>>

\* except Exception: return False
ProcessExceptResult == "false"

\* embeddings = self.embedding_model.encode(chunk_texts), which may raise, then
\* self.collection.add(...), which may raise: one step, encode touches nothing
\* another request can see.
ProcAdd(p) ==
    /\ proc[p].pc = "add"
    /\ \E outcome \in {"ok", "encode", "add"} :
          IF outcome = "ok"
          THEN /\ index' = IndexAdd(index, Batch(proc[p].doc, proc[p].path, proc[p].meta,
                                                 proc[p].chunks))
               /\ proc' = [proc EXCEPT ![p].pc = "registry"]
          ELSE /\ index' = index
               /\ proc' = [proc EXCEPT ![p] =
                             [@ EXCEPT !.pc = "done", !.result = ProcessExceptResult,
                                       !.raised = outcome]]
    /\ UNCHANGED <<docs, files, del>>

\* The row after "document.is_processed = True; document.chunk_count = n".
MarkProcessed(row, n) == [row EXCEPT !.is_processed = TRUE, !.chunk_count = n]

\* document = Document.query.get(document_id); if document: update and commit;
\* return True.  A commit that raises is caught: return False.
ProcRegistry(p) ==
    /\ proc[p].pc = "registry"
    /\ LET d == proc[p].doc
       IN IF d \in DOMAIN docs /\ docs[d].row = "present"
          THEN \E ok \in BOOLEAN :
                 IF ok
                 THEN /\ docs' = [docs EXCEPT ![d] = MarkProcessed(@, Len(proc[p].chunks))]
                      /\ proc' = [proc EXCEPT ![p] = [@ EXCEPT !.pc = "done", !.result = "true"]]
                 ELSE /\ docs' = docs
                      /\ proc' = [proc EXCEPT ![p] =
                                    [@ EXCEPT !.pc = "done", !.result = ProcessExceptResult,
                                              !.raised = "commit"]]
          ELSE /\ docs' = docs
               /\ proc' = [proc EXCEPT ![p] = [@ EXCEPT !.pc = "done", !.result = "true"]]
    /\ UNCHANGED <<files, index, del>>

\* ------------------------------------------------------------------------
\* delete_document and RAGService.delete_document_chunks
\* ------------------------------------------------------------------------
\* document = Document.query.get(document_id); not found: 404.
DelStart(d) ==
    /\ del[d].pc \in {"idle", "done"}
    /\ docs[d].row # "none"
    /\ del' = [del EXCEPT ![d] =
                 IF docs[d].row = "present"
                 THEN [IdleDel EXCEPT !.pc = "get"]
                 ELSE [IdleDel EXCEPT !.pc = "done", !.status = "404"]]
    /\ UNCHANGED <<docs, files, index, proc>>

\* results = self.collection.get(where={"document_id": document_id}); it may
\* raise: delete_document_chunks returns False and delete_document goes on.
DelGet(d) ==
    /\ del[d].pc = "get"
    /\ \E ok \in BOOLEAN :
          del' = [del EXCEPT ![d] =
                    IF ok
                    THEN LET ids == IndexGetIds(index, d)
                         IN IF ids # {} THEN [@ EXCEPT !.pc = "delete", !.ids = ids]
                            ELSE [@ EXCEPT !.pc = "file"]
                    ELSE [@ EXCEPT !.pc = "file"]]
    /\ UNCHANGED <<docs, files, index, proc>>

\* self.collection.delete(ids=results['ids']); it may raise.
DelChunks(d) ==
    /\ del[d].pc = "delete"
    /\ \E ok \in BOOLEAN :
          IF ok
          THEN /\ index' = IndexDelete(index, del[d].ids)
               /\ del' = [del EXCEPT ![d] = [@ EXCEPT !.pc = "file", !.ids = {}]]
          ELSE /\ index' = index
               /\ del' = [del EXCEPT ![d] = [@ EXCEPT !.pc = "file", !.ids = {}]]
    /\ UNCHANGED <<docs, files, proc>>

\* if os.path.exists(document.file_path): os.remove(...); it may raise: 500.
DelFile(d) ==
    /\ del[d].pc = "file"
    /\ IF FilePath(d) \in files
       THEN \E ok \in BOOLEAN :
              IF ok
              THEN /\ files' = files \ {FilePath(d)}
                   /\ del' = [del EXCEPT ![d].pc = "record"]
              ELSE /\ files' = files
                   /\ del' = [del EXCEPT ![d] = [@ EXCEPT !.pc = "done", !.status = "500"]]
       ELSE /\ files' = files
            /\ del' = [del EXCEPT ![d].pc = "record"]
    /\ UNCHANGED <<docs, index, proc>>

\* db.session.delete(document); db.session.commit(); it may raise: 500.
DelRecord(d) ==
    /\ del[d].pc = "record"
    /\ \E ok \in BOOLEAN :
          IF ok
          THEN /\ docs' = [docs EXCEPT ![d].row = "deleted"]
               /\ del' = [del EXCEPT ![d] = [@ EXCEPT !.pc = "done", !.status = "200"]]
          ELSE /\ docs' = docs
               /\ del' = [del EXCEPT ![d] = [@ EXCEPT !.pc = "done", !.status = "500"]]
    /\ UNCHANGED <<files, index, proc>>

\* ------------------------------------------------------------------------
\* RAGService.search_similar_documents and get_relevant_context
\* ------------------------------------------------------------------------
\* formatted_results of a call made in a state with index idx; when the query
\* raises (ok = FALSE) the exception is caught and [] is returned.
FormatResults(idx, ids, q) ==
    [k \in 1..Len(ids) |->
        [text |-> idx[ids[k]].text,
         meta |-> idx[ids[k]].meta,
         similarity_score |-> 1 - Distance(q, idx[ids[k]].text)]]

SearchSimilarDocuments(idx, q, n_results, where, ok) ==
    IF ok
    THEN FormatResults(idx, IndexQuery(idx, q, n_results, where), q)
    ELSE <<>>

\* Every result list a search made in the current state can return.
SearchResults ==
    {SearchSimilarDocuments(index, q, TOP_K_RESULTS, w, ok) :
        q \in Queries, w \in {"none"} \cup Categories, ok \in BOOLEAN}

\* ------------------------------------------------------------------------
\* A caller of RAGService that processes a stored document again
\* ------------------------------------------------------------------------
\* process_pdf_document(file_path, document_id, metadata) for a document that
\* was uploaded before, with new content at file_path; the caller serialises
\* the calls for one document (no other call for it is running).
Reingest(p, d, metadata) ==
    /\ FreeSlot(p)
    /\ docs[d].row # "none"
    /\ \A q \in Procs : proc[q].doc = d => proc[q].pc = "done"
    /\ files' = files \cup {FilePath(d)}
    /\ proc' = [proc EXCEPT ![p] = [IdleProc EXCEPT !.pc = "extract", !.doc = d,
                                        !.path = FilePath(d), !.meta = metadata,
                                        !.rerun = TRUE]]
    /\ UNCHANGED <<docs, index, del>>

\* ------------------------------------------------------------------------
\* The application: concurrent requests
\* ------------------------------------------------------------------------
UploadDocument ==
    (\E p \in Procs, c \in Categories : Upload(p, c)) /\ UNCHANGED <<chunkVars, auxVars, restVars>>
ExtractStep == (\E p \in Procs : ProcExtract(p)) /\ UNCHANGED <<chunkVars, auxVars, restVars>>
AddStep == (\E p \in Procs : ProcAdd(p)) /\ UNCHANGED <<chunkVars, auxVars, restVars>>
RegistryStep == (\E p \in Procs : ProcRegistry(p)) /\ UNCHANGED <<chunkVars, auxVars, restVars>>
DeleteStart == (\E d \in DocIds : DelStart(d)) /\ UNCHANGED <<chunkVars, auxVars, restVars>>
DeleteGet == (\E d \in DocIds : DelGet(d)) /\ UNCHANGED <<chunkVars, auxVars, restVars>>
DeleteChunks == (\E d \in DocIds : DelChunks(d)) /\ UNCHANGED <<chunkVars, auxVars, restVars>>
DeleteFile == (\E d \in DocIds : DelFile(d)) /\ UNCHANGED <<chunkVars, auxVars, restVars>>
DeleteRecord == (\E d \in DocIds : DelRecord(d)) /\ UNCHANGED <<chunkVars, auxVars, restVars>>
ReingestDocument ==
    /\ \E p \in Procs, d \in DocIds,
          m \in {NoMetadata} \cup {UploadMetadata(c) : c \in Categories} : Reingest(p, d, m)
    /\ UNCHANGED <<chunkVars, auxVars, restVars>>

Next ==
    \/ UploadDocument \/ ExtractStep \/ AddStep \/ RegistryStep
    \/ DeleteStart \/ DeleteGet \/ DeleteChunks \/ DeleteFile \/ DeleteRecord

\* The handlers of the application.
Spec == Init /\ [][Next]_vars

ServiceNext == Next \/ ReingestDocument

\* The handlers of the application and a caller that re-ingests documents.
ServiceSpec == Init /\ [][ServiceNext]_vars

\* ------------------------------------------------------------------------
\* A library of ingested documents: the states retrieval is called in
\* ------------------------------------------------------------------------
MaxLibrary == 2
MaxResults == 2

LibraryDocs == {DocName(i) : i \in 1..MaxLibrary}

LibraryFiles == PdfFiles \cup { << <<"a", "a">> >> }

\* The chunk lists _extract_text_from_pdf returns for the library's files.
LibraryChunkLists ==
    UNION {{o.chunks : o \in {x \in ExtractOutcomes(TRUE, pages, Config.CHUNK_SIZE,
                                                      Config.CHUNK_OVERLAP) :
                                x.kind # "hang" /\ x.chunks # <<>>}} :
           pages \in LibraryFiles}

\* What was uploaded for each document id: nothing, or chunks and a category.
LibraryEntries ==
    {[chunks |-> <<>>, category |-> "general"]}
        \cup [chunks : LibraryChunkLists, category : Categories]

RECURSIVE Ingested(_, _)
\* The index after process_pdf_document has inserted the documents ds of lib.
Ingested(ds, lib) ==
    IF ds = {} THEN EmptyIndex
    ELSE LET d == CHOOSE x \in ds : TRUE
         IN IndexAdd(Ingested(ds \ {d}, lib),
                     Batch(d, FilePath(d), UploadMetadata(lib[d].category), lib[d].chunks))

\* The state after the uploads of a library have finished: every uploaded
\* document has its row marked processed and its chunks in the index.
LibraryInit ==
    /\ ChunkInit
    /\ AuxInit
    /\ RestInit
    /\ ChatInit
    /\ \E lib \in [LibraryDocs -> LibraryEntries] :
          /\ index = Ingested(LibraryDocs, lib)
          /\ docs = [d \in LibraryDocs |->
                       IF lib[d].chunks = <<>> THEN NoRow
                       ELSE MarkProcessed([row |-> "present", is_processed |-> FALSE,
                                           chunk_count |-> 0], Len(lib[d].chunks))]
          /\ files = {FilePath(d) : d \in {x \in LibraryDocs : lib[x].chunks # <<>>}}
    /\ proc = [p \in Procs |-> IdleProc]
    /\ del = [d \in LibraryDocs |-> IdleDel]

\* ------------------------------------------------------------------------
\* RAGService.search_similar_documents and get_relevant_context as steps
\* ------------------------------------------------------------------------
LibraryQueries == Queries \cup {<<>>, <<"a", "a">>}

\* filter_metadata: None, or {"category": category_filter}.
Filters == {"none"} \cup Categories

SearchExceptPropagates == "propagated"

\* except Exception: return [] (lines 155-157): the call returns normally.
SearchExceptOutcome == "returned"

ContextTextsReversed(results) ==
    [k \in 1..Len(results) |-> results[Len(results) + 1 - k].text]

\* context_texts = [result['text'] for result in results]
ContextTexts(results) == [k \in 1..Len(results) |-> results[k].text]

\* A caller calls search_similar_documents(query, n_results, filter_metadata)
\* directly, or get_relevant_context(query, category_filter), which passes
\* n_results = TOP_K_RESULTS.
SearchCall ==
    /\ search.pc = "idle"
    /\ removal.pc = "idle"
    /\ \E via \in {"search", "context"}, q \in LibraryQueries, f \in Filters,
          n \in 1..MaxResults :
          search' = [IdleSearch EXCEPT !.pc = "query", !.via = via, !.query = q,
                                       !.filter = f,
                                       !.n_results = IF via = "context" THEN TOP_K_RESULTS
                                                     ELSE n]
    /\ UNCHANGED <<chunkVars, sysVars, removal, services, restVars>>

\* encode and collection.query (lines 133-141), either of which may raise, and
\* the formatting of the results (lines 144-153).
SearchQuery ==
    /\ search.pc = "query"
    /\ \E ok \in BOOLEAN :
          search' = [search EXCEPT
                        !.raised = ~ok,
                        !.hits = IF ok THEN IndexQuery(index, search.query, search.n_results,
                                                       search.filter)
                                 ELSE <<>>,
                        !.results = SearchSimilarDocuments(index, search.query,
                                                           search.n_results, search.filter, ok),
                        !.pc = IF ~ok THEN (IF SearchExceptOutcome = "returned"
                                              THEN (IF search.via = "context" THEN "context"
                                                    ELSE "returned")
                                              ELSE SearchExceptOutcome)
                               ELSE IF search.via = "context" THEN "context" ELSE "returned"]
    /\ UNCHANGED <<chunkVars, sysVars, removal, services, restVars>>

\* get_relevant_context keeps the text of every result (lines 184-186).
ContextReturn ==
    /\ search.pc = "context"
    /\ search' = [search EXCEPT !.context = ContextTexts(search.results), !.pc = "returned"]
    /\ UNCHANGED <<chunkVars, sysVars, removal, services, restVars>>

\* The caller has the return value; the next call can begin.
SearchDone ==
    /\ search.pc \in {"returned", "propagated"}
    /\ search' = IdleSearch
    /\ UNCHANGED <<chunkVars, sysVars, removal, services, restVars>>

SearchNext == SearchCall \/ SearchQuery \/ ContextReturn \/ SearchDone

\* Retrieval calls against a library of ingested documents.
SearchSpec == LibraryInit /\ [][SearchNext]_vars

\* ------------------------------------------------------------------------
\* RAGService.delete_document_chunks called directly, one call after another
\* ------------------------------------------------------------------------
MaxCalls == 2

RemoveEmptyResultFalse == FALSE

\* return True  # No chunks to delete is also success (line 300)
RemoveEmptyResult == TRUE

\* The record of a call that has returned: its argument, its return value,
\* whether an index call raised, the ids it deleted and the index it left.
RemoveLogEntry(d, result, raised, deleted, idx) ==
    [doc |-> d, result |-> result, raised |-> raised, deleted |-> deleted, after |-> idx]

\* delete_document_chunks(d) is called.
RemoveCall(d) ==
    /\ removal.pc = "idle"
    /\ search.pc = "idle"
    /\ Len(removal.log) < MaxCalls
    /\ removal' = [removal EXCEPT !.pc = "get", !.doc = d]
    /\ UNCHANGED <<chunkVars, sysVars, search, services, restVars>>

\* results = self.collection.get(where={"document_id": document_id}): when it
\* raises the call returns False; with no ids it returns True.
RemoveGet ==
    /\ removal.pc = "get"
    /\ \E ok \in BOOLEAN :
          LET ids == IndexGetIds(index, removal.doc)
          IN removal' =
                IF ~ok
                THEN [removal EXCEPT !.pc = "idle",
                        !.log = Append(@, RemoveLogEntry(removal.doc, FALSE, TRUE, {}, index))]
                ELSE IF ids # {}
                THEN [removal EXCEPT !.pc = "delete", !.ids = ids]
                ELSE [removal EXCEPT !.pc = "idle",
                        !.log = Append(@, RemoveLogEntry(removal.doc, RemoveEmptyResult,
                                                         FALSE, {}, index))]
    /\ UNCHANGED <<chunkVars, sysVars, search, services, restVars>>

\* self.collection.delete(ids=results['ids']); return True; when it raises
\* the call returns False.
RemoveDelete ==
    /\ removal.pc = "delete"
    /\ \E ok \in BOOLEAN :
          /\ index' = IF ok THEN IndexDelete(index, removal.ids) ELSE index
          /\ removal' = [removal EXCEPT !.pc = "idle", !.ids = {},
                            !.log = Append(@, RemoveLogEntry(removal.doc, ok, ~ok,
                                                             IF ok THEN removal.ids ELSE {},
                                                             index'))]
    /\ UNCHANGED <<chunkVars, docs, files, proc, del, search, services, restVars>>

RemoveDocumentChunks == \E d \in LibraryDocs : RemoveCall(d)

RemoveNext == RemoveDocumentChunks \/ RemoveGet \/ RemoveDelete

\* Removal calls against a library of ingested documents.
RemoveSpec == LibraryInit /\ [][RemoveNext]_vars

\* ------------------------------------------------------------------------
\* A caller of RAGService that does not serialise the calls for a document
\* ------------------------------------------------------------------------
\* process_pdf_document(file_path, document_id, metadata) for a document that
\* was uploaded before, while another call for it may still be running.
ConcurrentIngest(p, d, metadata) ==
    /\ FreeSlot(p)
    /\ docs[d].row # "none"
    /\ \E q \in Procs : proc[q].doc = d /\ proc[q].pc \in {"extract", "add", "registry"}
    /\ files' = files \cup {FilePath(d)}
    /\ proc' = [proc EXCEPT ![p] = [IdleProc EXCEPT !.pc = "extract", !.doc = d,
                                        !.path = FilePath(d), !.meta = metadata,
                                        !.rerun = TRUE]]
    /\ UNCHANGED <<docs, index, del>>

ConcurrentIngestDocument ==
    /\ \E p \in Procs, d \in DocIds,
          m \in {NoMetadata} \cup {UploadMetadata(c) : c \in Categories} :
             ConcurrentIngest(p, d, m)
    /\ UNCHANGED <<chunkVars, auxVars, restVars>>

ConcurrentNext == ServiceNext \/ ConcurrentIngestDocument

\* The handlers of the application and callers that ingest a document again,
\* one call after another or concurrently.
ConcurrentSpec == Init /\ [][ConcurrentNext]_vars

\* ------------------------------------------------------------------------
\* The RAGService instances of one process
\* ------------------------------------------------------------------------
\* RAGService(): a new instance with its own embedding model and index client.
NewService == services.created + 1

\* get_rag_service() of api/routes.py finds its global None and constructs a
\* RAGService; called by upload_document, delete_document and get_vector_stats.
ApiGetRagService ==
    /\ services.api = 0
    /\ services' = [services EXCEPT !.api = NewService, !.created = NewService]
    /\ UNCHANGED <<chunkVars, sysVars, search, removal, restVars>>

\* get_services() of chat/routes.py finds its own global None and constructs
\* a RAGService; called by the chat handlers.
ChatGetServices ==
    /\ services.chat = 0
    /\ services' = [services EXCEPT !.chat = NewService, !.created = NewService]
    /\ UNCHANGED <<chunkVars, sysVars, search, removal, restVars>>

\* The steps of upload_document and delete_document that go through the
\* service run after get_rag_service has returned it.
AppNext ==
    \/ UploadDocument \/ DeleteStart \/ DeleteFile \/ DeleteRecord
    \/ ApiGetRagService \/ ChatGetServices
    \/ (services.api # 0 /\ (ExtractStep \/ AddStep \/ RegistryStep \/ DeleteGet \/ DeleteChunks))

\* The handlers of the application together with their service accessors.
AppSpec == Init /\ [][AppNext]_vars

\* ------------------------------------------------------------------------
\* The processing state a Document row shows
\* ------------------------------------------------------------------------
\* The row carries is_processed (a boolean) and chunk_count and nothing else
\* about ingestion: it shows "processed" or "unprocessed".
DocStatus(row) == IF row.is_processed THEN "processed" ELSE "unprocessed"

\* ------------------------------------------------------------------------
\* _chunk_text on prose 2.5 chunk sizes long
\* ------------------------------------------------------------------------
\* 2500 characters with chunk_size = 1000 and chunk_overlap = 200 (config.py),
\* at one hundredth of the scale.
ProseConfig == [length |-> 25, chunk_size |-> 10, chunk_overlap |-> 2]

\* Letters, with the characters ci and cj at the positions i and j.
ProseText(i, ci, j, cj) ==
    [p \in 1..ProseConfig.length |-> IF p = i THEN ci ELSE IF p = j THEN cj ELSE "a"]

\* Prose with up to two sentence ends or spaces, anywhere.
ProseTexts ==
    {ProseText(i, ci, j, cj) : i \in 1..ProseConfig.length, j \in 1..ProseConfig.length,
                               ci \in Alphabet, cj \in Alphabet}

\* _chunk_text(text, 1000, 200) is called on prose.
ProseCall ==
    /\ cpc = "idle"
    /\ text' \in ProseTexts
    /\ chunk_size' = ProseConfig.chunk_size
    /\ chunk_overlap' = ProseConfig.chunk_overlap
    /\ start' = 0
    /\ chunks' = <<>>
    /\ windows' = <<>>
    /\ visited' = {}
    /\ cpc' = "loop"
    /\ UNCHANGED <<sysVars, auxVars, restVars>>

ProseNext == ProseCall \/ ChunkStep \/ ChunkReturn \/ ChunkExcept \/ ChunkKilled

ProseSpec == Init /\ [][ProseNext]_vars

\* ------------------------------------------------------------------------
\* RAGService._extract_text_from_pdf as a call
\* ------------------------------------------------------------------------
MaxPages == 3

\* What page.extract_text() gives for one page: text, or nothing for a page
\* that is blank or holds only images.
PageTexts == {<<>>, <<"a">>, <<"a", ".">>, <<" ">>}

PageLists == SeqsUpTo(PageTexts, MaxPages)

\* _extract_text_from_pdf(file_path), lines 205-224: read every page into
\* full_text; blank text returns []; other text is handed to _chunk_text
\* with CHUNK_SIZE and CHUNK_OVERLAP.  Opening or reading the file can
\* raise: the except clause returns [].
ExtractCall ==
    /\ epc = "idle"
    /\ cpc = "idle"
    /\ \E pgs \in PageLists, openOk \in BOOLEAN :
        /\ pdf_pages' = pgs
        /\ IF ~openOk
           THEN /\ epc' = "except"
                /\ full_text' = <<>>
                /\ UNCHANGED chunkVars
           ELSE /\ full_text' = ExtractText(pgs)
                /\ IF Strip(ExtractText(pgs)) = <<>>
                   THEN /\ epc' = "returned"
                        /\ UNCHANGED chunkVars
                   ELSE /\ epc' = "chunking"
                        /\ text' = ExtractText(pgs)
                        /\ chunk_size' = Config.CHUNK_SIZE
                        /\ chunk_overlap' = Config.CHUNK_OVERLAP
                        /\ start' = 0
                        /\ chunks' = <<>>
                        /\ windows' = <<>>
                        /\ visited' = {}
                        /\ cpc' = "loop"
    /\ UNCHANGED <<sysVars, auxVars, chatVars>>

\* _chunk_text has returned (its list, or [text] from its except clause):
\* _extract_text_from_pdf returns that list.
ExtractReturn ==
    /\ epc = "chunking"
    /\ cpc \in {"returned", "except"}
    /\ epc' = "returned"
    /\ UNCHANGED <<pdf_pages, full_text>>
    /\ UNCHANGED <<chunkVars, sysVars, auxVars, chatVars>>

ExtractNext ==
    \/ ExtractCall
    \/ ChunkStep
    \/ ChunkReturn
    \/ ChunkExcept
    \/ ChunkKilled
    \/ ExtractReturn

ExtractSpec == Init /\ [][ExtractNext]_vars

\* ------------------------------------------------------------------------
\* Callers of RAGService.process_pdf_document and delete_document_chunks
\* ------------------------------------------------------------------------
\* The number of process_pdf_document calls the direct caller makes.
MaxIngest == 1

\* The metadata argument of process_pdf_document is any dict (Dict[str, Any],
\* line 48): none, what upload_document passes, or a dict with other keys.
CallerMetadata ==
    { NoMetadata,
      UploadMetadata("general"),
      [document_id |-> DocName(2)],
      [chunk_index |-> 0, source_file |-> "f.pdf"] }

\* process_pdf_document(file_path, d, metadata) is called for a document of
\* the library while no other call of the service is running.
DirectProcess(p, d, metadata) ==
    /\ FreeSlot(p)
    /\ Cardinality({q \in Procs : proc[q].pc # "idle"}) < MaxIngest
    /\ \A q \in Procs : proc[q].pc \in {"idle", "done"}
    /\ removal.pc = "idle"
    /\ files' = files \cup {FilePath(d)}
    /\ proc' = [proc EXCEPT ![p] = [IdleProc EXCEPT !.pc = "extract", !.doc = d,
                                        !.path = FilePath(d), !.meta = metadata,
                                        !.rerun = TRUE]]
    /\ UNCHANGED <<docs, index, del>>

DirectProcessDocument ==
    /\ \E p \in Procs, d \in LibraryDocs, m \in CallerMetadata : DirectProcess(p, d, m)
    /\ UNCHANGED <<chunkVars, auxVars, restVars>>

\* delete_document_chunks(d) is called while no other call is running.
DirectRemoveChunks ==
    /\ \A q \in Procs : proc[q].pc \in {"idle", "done"}
    /\ RemoveDocumentChunks

DirectNext ==
    \/ DirectProcessDocument \/ ExtractStep \/ AddStep \/ RegistryStep
    \/ DirectRemoveChunks \/ RemoveGet \/ RemoveDelete

\* The library the direct calls start from: every document was uploaded as a
\* one-page PDF with the text "a" in category "general".
DirectLibrary == [d \in LibraryDocs |-> [chunks |-> << <<"a">> >>, category |-> "general"]]

DirectInit ==
    /\ LibraryInit
    /\ index = Ingested(LibraryDocs, DirectLibrary)

\* Direct calls of the service against a library of ingested documents.
DirectSpec == DirectInit /\ [][DirectNext]_vars

\* ------------------------------------------------------------------------
\* create_chat_session, save_applicant_data and send_message
\* ------------------------------------------------------------------------
\* str(uuid.uuid4()): an id no row has yet.
FreshSession ==
    SessionName(CHOOSE i \in 1..MaxSessions :
                    /\ sessions[SessionName(i)] = "none"
                    /\ \A j \in 1..(i - 1) : sessions[SessionName(j)] # "none")

\* create_chat_session: the row is committed (line 35); the query for the
\* welcome message follows (line 38) and the id is returned with 201.  A
\* commit that raises stores nothing; a query that raises answers 500 for a
\* row that is stored, and the id is not returned.
CreateChatSession ==
    /\ \E s \in SessionIds : sessions[s] = "none"
    /\ \E outcome \in {"201", "commit", "query"} :
          sessions' = IF outcome = "commit" THEN sessions
                      ELSE [sessions EXCEPT ![FreshSession] =
                               IF outcome = "201" THEN "session" ELSE "unreturned"]
    /\ UNCHANGED <<messages, applicants, chat, update, gemini_service>>
    /\ UNCHANGED <<chunkVars, sysVars, auxVars, extractVars>>

\* The words of detect_application_intent, as one token of a message.
ApplicationKeywords == {"apply"}

\* any(keyword in message.lower() for keyword in application_keywords)
DetectApplicationIntent(message) ==
    \E i \in 1..Len(message) : message[i] \in ApplicationKeywords

\* The JSON bodies of send_message requests: no JSON, JSON without the key
\* 'message', or a message.
ChatMessages == {<<>>, <<" ">>, <<"a">>, <<" ", "apply">>}

ChatBodies ==
    {[json |-> FALSE, has_message |-> FALSE, message |-> <<>>],
     [json |-> TRUE, has_message |-> FALSE, message |-> <<>>]}
        \cup {[json |-> TRUE, has_message |-> TRUE, message |-> m] : m \in ChatMessages}

FreeRequest(r) == chat[r].pc = "idle" /\ \A q \in Requests : q < r => chat[q].pc # "idle"

\* A ChatMessage row; request names the send_message request that wrote it.
ChatMessageRow(session_id, message_type, r) ==
    [session_id |-> session_id, message_type |-> message_type, request |-> r]

FirstMessageTypeAssistant == "assistant"

\* message_type='user' of the row send_message commits first (line 253).
FirstMessageType == "user"

\* send_message up to the session lookup (lines 232-245): 400 without a
\* message or with a blank one, 404 for an unknown session; the lookup may
\* raise (500).
SendMessage(r, sid, body) ==
    /\ FreeRequest(r)
    /\ \E ok \in BOOLEAN :
        chat' = [chat EXCEPT ![r] =
            LET request == [IdleChat EXCEPT !.session = sid,
                                            !.content = Strip(body.message),
                                            !.created = (sessions[sid] = "session")]
            IN IF ~body.json \/ ~body.has_message
               THEN [request EXCEPT !.pc = "done", !.status = "400"]
               ELSE IF Strip(body.message) = <<>>
               THEN [request EXCEPT !.pc = "done", !.status = "400"]
               ELSE IF ~ok
               THEN [request EXCEPT !.pc = "done", !.status = "500", !.raised = "query"]
               ELSE IF sessions[sid] = "none"
               THEN [request EXCEPT !.pc = "done", !.status = "404"]
               ELSE [request EXCEPT !.pc = "services"]]
    /\ UNCHANGED <<sessions, messages, applicants, update, gemini_service>>
    /\ UNCHANGED <<chunkVars, sysVars, auxVars, extractVars>>

\* gemini_svc, rag_svc = get_services() (line 248): a global that is None is
\* constructed; GeminiService() raises without GOOGLE_API_KEY and
\* RAGService() raises when the model or the index cannot be opened: 500.
SendGetServices(r) ==
    /\ chat[r].pc = "services"
    /\ \E outcome \in {"ok", "gemini", "rag"} :
        /\ outcome = "gemini" => ~gemini_service
        /\ outcome = "rag" => services.chat = 0
        /\ gemini_service' = (gemini_service \/ outcome # "gemini")
        /\ services' = IF outcome = "ok" /\ services.chat = 0
                       THEN [services EXCEPT !.chat = NewService, !.created = NewService]
                       ELSE services
        /\ chat' = [chat EXCEPT ![r] =
                      IF outcome = "ok" THEN [@ EXCEPT !.pc = "user"]
                      ELSE [@ EXCEPT !.pc = "done", !.status = "500", !.raised = outcome]]
    /\ UNCHANGED <<sessions, messages, applicants, update>>
    /\ UNCHANGED <<chunkVars, sysVars, search, removal, extractVars>>

\* The user message is added and committed (lines 251-257).
SendUserMessage(r) ==
    /\ chat[r].pc = "user"
    /\ \E ok \in BOOLEAN :
          IF ok
          THEN /\ messages' = Append(messages,
                                     ChatMessageRow(chat[r].session, FirstMessageType, r))
               /\ chat' = [chat EXCEPT ![r].pc = "intent"]
          ELSE /\ messages' = messages
               /\ chat' = [chat EXCEPT ![r] =
                             [@ EXCEPT !.pc = "done", !.status = "500", !.raised = "commit"]]
    /\ UNCHANGED <<sessions, applicants, update, gemini_service>>
    /\ UNCHANGED <<chunkVars, sysVars, auxVars, extractVars>>

\* What extract_program_info can return: None, or a program name.
ExtractedPrograms == {<<>>, <<"p">>}

\* Lines 260-276: with application intent and applicant data without a
\* program, the extracted program is stored and committed.
SendIntent(r) ==
    /\ chat[r].pc = "intent"
    /\ LET applicant_data == applicants[chat[r].session]
       IN \E ok \in BOOLEAN, program \in ExtractedPrograms :
          IF /\ DetectApplicationIntent(chat[r].content)
             /\ applicant_data.row = "present"
             /\ applicant_data.intended_program = <<>>
             /\ program # <<>>
          THEN IF ok
               THEN /\ applicants' =
                          [applicants EXCEPT ![chat[r].session] =
                              [@ EXCEPT !.intended_program = program,
                                        !.application_status = "applying",
                                        !.data_collection_status = "complete"]]
                    /\ chat' = [chat EXCEPT ![r].pc = "respond"]
               ELSE /\ applicants' = applicants
                    /\ chat' = [chat EXCEPT ![r] =
                                  [@ EXCEPT !.pc = "done", !.status = "500",
                                            !.raised = "commit"]]
          ELSE /\ applicants' = applicants
               /\ chat' = [chat EXCEPT ![r].pc = "respond"]
    /\ UNCHANGED <<sessions, messages, update, gemini_service>>
    /\ UNCHANGED <<chunkVars, sysVars, auxVars, extractVars>>

GenerateRagResponseRaises(llm) == IF llm = "ok" THEN "answer" ELSE "raise"

\* generate_rag_response (gemini_service.py:80-100): the model's answer, or,
\* when the model call raised, the apology text its except clause returns.
GenerateRagResponse(llm) == IF llm = "ok" THEN "answer" ELSE "apology"

\* Lines 281-342: get_relevant_context (which returns [] when the search
\* raises), generate_rag_response (which returns an apology text when the
\* model call raises), then the assistant message is added and committed
\* and the response is returned with status 200.
SendRespond(r) ==
    /\ chat[r].pc = "respond"
    /\ \E searchOk \in BOOLEAN, llm \in {"ok", "failed"}, ok \in BOOLEAN :
          LET context_documents ==
                  ContextTexts(SearchSimilarDocuments(index, chat[r].content,
                                                      TOP_K_RESULTS, "none", searchOk))
              answered == [chat[r] EXCEPT !.llm = llm,
                              !.context = IF context_documents = <<>> THEN "empty"
                                          ELSE "found"]
          IN IF GenerateRagResponse(llm) = "raise"
             THEN /\ messages' = messages
                  /\ chat' = [chat EXCEPT ![r] =
                                [answered EXCEPT !.pc = "done", !.status = "500",
                                                 !.raised = "llm"]]
             ELSE IF ok
             THEN /\ messages' = Append(messages,
                                        ChatMessageRow(chat[r].session, "assistant", r))
                  /\ chat' = [chat EXCEPT ![r] =
                                [answered EXCEPT !.pc = "done", !.status = "200",
                                                 !.text = TRUE]]
             ELSE /\ messages' = messages
                  /\ chat' = [chat EXCEPT ![r] =
                                [answered EXCEPT !.pc = "done", !.status = "500",
                                                 !.raised = "commit"]]
    /\ UNCHANGED <<sessions, applicants, update, gemini_service>>
    /\ UNCHANGED <<chunkVars, sysVars, auxVars, extractVars>>

SendMessageRequest == \E r \in Requests, sid \in SessionIds, body \in ChatBodies :
                          SendMessage(r, sid, body)
GetServicesStep == \E r \in Requests : SendGetServices(r)
UserMessageStep == \E r \in Requests : SendUserMessage(r)
IntentStep == \E r \in Requests : SendIntent(r)
RespondStep == \E r \in Requests : SendRespond(r)

\* ------------------------------------------------------------------------
\* save_applicant_data and update_applicant_data
\* ------------------------------------------------------------------------
Letters == {"a", "b", "A"}

\* str.lower()
Lower(T) == [i \in 1..Len(T) |-> IF T[i] = "A" THEN "a" ELSE T[i]]

\* re.match(email_pattern, email): from the first character on, one or more
\* local characters beginning at a word boundary, '@', one or more domain
\* characters, '.', two or more letters, then a word boundary.
EmailMatch(email) ==
    \E at \in 2..Len(email) : \E dot \in (at + 2)..Len(email) : \E fin \in (dot + 2)..Len(email) :
        /\ email[1] \in Letters
        /\ \A k \in 1..(at - 1) : email[k] \in Letters \cup {"."}
        /\ email[at] = "@"
        /\ \A k \in (at + 1)..(dot - 1) : email[k] \in Letters \cup {"."}
        /\ email[dot] = "."
        /\ \A k \in (dot + 1)..fin : email[k] \in Letters
        /\ fin = Len(email) \/ email[fin + 1] \notin Letters

\* The values a request carries for a field; <<>> stands for a field that
\* is absent, null or the empty string.
Names == {<<>>, <<"a">>, <<"b", " ">>}
Emails == {<<>>, <<"a", "@", "a", ".", "a", "a">>, <<"A", "@", "a", ".", "a", "a", " ">>,
           <<"a", "@", "a">>}
Phones == {<<>>, <<"1">>}
Programs == {<<>>, <<"p">>}

\* The JSON bodies of the applicant-data requests; json = FALSE: no body.
ApplicantBodies ==
    {[json |-> FALSE, name |-> <<>>, email |-> <<>>, phone |-> <<>>, intended_program |-> <<>>]}
        \cup [json : {TRUE}, name : Names, email : Emails, phone : Phones,
              intended_program : Programs]

\* The ApplicantData row save_applicant_data builds (lines 85-93).
NewApplicant(body) ==
    [row |-> "present",
     name |-> Strip(body.name),
     email |-> Lower(Strip(body.email)),
     phone |-> Strip(body.phone),
     intended_program |-> Strip(body.intended_program),
     application_status |-> "interested",
     data_collection_status |-> "basic_info_complete"]

\* save_applicant_data: 400 without a body, with a required field missing or
\* with an invalid email; otherwise the session and the applicant row are
\* committed together (a commit that raises is rolled back: 500).
SaveApplicantData ==
    /\ \E s \in SessionIds : sessions[s] = "none"
    /\ \E body \in ApplicantBodies :
          IF /\ body.json
             /\ body.name # <<>> /\ body.email # <<>> /\ body.phone # <<>>
             /\ EmailMatch(body.email)
          THEN \E ok \in BOOLEAN :
                 IF ok
                 THEN /\ sessions' = [sessions EXCEPT ![FreshSession] = "applicant"]
                      /\ applicants' = [applicants EXCEPT ![FreshSession] =
                                           NewApplicant(body)]
                 ELSE UNCHANGED <<sessions, applicants>>
          ELSE UNCHANGED <<sessions, applicants>>
    /\ UNCHANGED <<messages, chat, update, gemini_service>>
    /\ UNCHANGED <<chunkVars, sysVars, auxVars, extractVars>>

\* The fields update_applicant_data assigns on the row object before the
\* email check (line 127-128).
AssignName(row, body) ==
    IF body.name # <<>> THEN [row EXCEPT !.name = Strip(body.name)] ELSE row

\* The fields it assigns from the email check on (lines 134-142).
AssignRest(row, body) ==
    LET r1 == IF body.email # <<>> THEN [row EXCEPT !.email = Lower(Strip(body.email))]
              ELSE row
        r2 == IF body.phone # <<>> THEN [r1 EXCEPT !.phone = Strip(body.phone)] ELSE r1
        r3 == IF body.intended_program # <<>>
              THEN [r2 EXCEPT !.intended_program = Strip(body.intended_program)] ELSE r2
    IN IF r3.name # <<>> /\ r3.email # <<>> /\ r3.phone # <<>> /\ r3.intended_program # <<>>
       THEN [r3 EXCEPT !.data_collection_status = "complete"]
       ELSE r3

\* update_applicant_data up to its commit or its error return (lines
\* 111-144).  working is the row object of the request's database session:
\* the name is assigned to it before the email is checked.
UpdateCall(sid, body) ==
    /\ update.pc = "idle"
    /\ LET request == [IdleUpdate EXCEPT !.session = sid, !.before = applicants[sid],
                                         !.working = applicants[sid]]
       IN update' =
            IF ~body.json
            THEN [request EXCEPT !.pc = "teardown", !.status = "400", !.reason = "body"]
            ELSE IF sessions[sid] = "none"
            THEN [request EXCEPT !.pc = "teardown", !.status = "404", !.reason = "session"]
            ELSE IF applicants[sid].row = "none"
            THEN [request EXCEPT !.pc = "teardown", !.status = "404", !.reason = "applicant"]
            ELSE IF body.email # <<>> /\ ~EmailMatch(body.email)
            THEN [request EXCEPT !.pc = "teardown", !.status = "400", !.reason = "email",
                                 !.working = AssignName(applicants[sid], body)]
            ELSE [request EXCEPT !.pc = "commit",
                                 !.working = AssignRest(AssignName(applicants[sid], body), body)]
    /\ UNCHANGED <<sessions, messages, applicants, chat, gemini_service>>
    /\ UNCHANGED <<chunkVars, sysVars, auxVars, extractVars>>

\* db.session.commit() (line 145): 200; when it raises, rollback and 500.
UpdateCommit ==
    /\ update.pc = "commit"
    /\ \E ok \in BOOLEAN :
          IF ok
          THEN /\ applicants' = [applicants EXCEPT ![update.session] = update.working]
               /\ update' = [update EXCEPT !.pc = "done", !.status = "200"]
          ELSE /\ applicants' = applicants
               /\ update' = [update EXCEPT !.pc = "done", !.status = "500"]
    /\ UNCHANGED <<sessions, messages, chat, gemini_service>>
    /\ UNCHANGED <<chunkVars, sysVars, auxVars, extractVars>>

SessionRemoveCommits(stored, working) == working

\* The request ends without a commit: Flask-SQLAlchemy removes the request's
\* session (db = SQLAlchemy(), app/__init__.py:9) and what was assigned to
\* its objects is discarded; the table keeps the stored row.
SessionRemove(stored, working) == stored

\* The error return of update_applicant_data (lines 113-114, 118-119,
\* 123-124, 132-133): no commit, no rollback; the request's session is removed.
UpdateTeardown ==
    /\ update.pc = "teardown"
    /\ applicants' = IF update.working.row = "present"
                     THEN [applicants EXCEPT ![update.session] =
                              SessionRemove(@, update.working)]
                     ELSE applicants
    /\ update' = [update EXCEPT !.pc = "done"]
    /\ UNCHANGED <<sessions, messages, chat, gemini_service>>
    /\ UNCHANGED <<chunkVars, sysVars, auxVars, extractVars>>

\* The response has been sent; the next request can begin.
UpdateDone ==
    /\ update.pc = "done"
    /\ update' = IdleUpdate
    /\ UNCHANGED <<sessions, messages, applicants, chat, gemini_service>>
    /\ UNCHANGED <<chunkVars, sysVars, auxVars, extractVars>>

UpdateApplicantData == \E sid \in SessionIds, body \in ApplicantBodies : UpdateCall(sid, body)

\* ------------------------------------------------------------------------
\* The chat application
\* ------------------------------------------------------------------------
\* The chat handlers start with the index empty or with the documents of the
\* library ingested.
ChatLibraryInit ==
    /\ LibraryInit
    /\ index \in {EmptyIndex, Ingested(LibraryDocs, DirectLibrary)}

ChatNext ==
    \/ CreateChatSession \/ SaveApplicantData
    \/ SendMessageRequest \/ GetServicesStep \/ UserMessageStep \/ IntentStep \/ RespondStep

\* Chat sessions and concurrent send_message requests.
ChatSpec == ChatLibraryInit /\ [][ChatNext]_vars

ApplicantNext ==
    \/ CreateChatSession \/ SaveApplicantData
    \/ UpdateApplicantData \/ UpdateCommit \/ UpdateTeardown \/ UpdateDone

\* Applicant data requests, one update_applicant_data request at a time.
ApplicantSpec == Init /\ [][ApplicantNext]_vars

\* ------------------------------------------------------------------------
\* Properties
\* ------------------------------------------------------------------------
\* The loop is deterministic in start: an iteration that begins at an offset an
\* earlier iteration began at repeats that iteration's successors for ever.
Hangs == cpc = "loop" /\ start < Len(text) /\ start \in visited

\* C1: with chunk_size > 0 and 0 <= overlap < chunk_size the call terminates:
\* the while loop never comes back to a start offset it has already processed
\* (which would repeat for ever) and never runs out of memory, so it reaches
\* start >= len(text) and returns its chunk list.
C1_Terminates == ValidConfig => (~Hangs /\ cpc \notin {"except", "killed"})

\* C2: with overlap >= chunk_size and a text longer than chunk_size the call
\* never loops for ever: the loop never repeats a start offset (a rejection
\* before the loop would never enter it).
C2_NoHangOnBadOverlap ==
    (cpc # "idle" /\ chunk_overlap >= chunk_size /\ Len(text) > chunk_size) => ~Hangs

\* C3: when the call returns with a valid configuration, every
\* non-whitespace character position of text lies in the window of an
\* emitted chunk.
C3_Covers ==
    (cpc \in {"returned", "except"} /\ ValidConfig) =>
        \A p \in 1..Len(text) :
            text[p] \notin Whitespace => \E k \in 1..Len(windows) : p \in windows[k]

\* C4: once delete_document has removed the Document row of D, no index entry
\* is tagged with D and no search returns a chunk whose document_id is D.
C4_DeletedDocNotIndexed ==
    \A d \in DocIds :
        docs[d].row = "deleted" =>
            /\ IndexGetIds(index, d) = {}
            /\ \A r \in SearchResults : \A k \in 1..Len(r) : r[k].meta.document_id # d

\* The latest finished call for document d.
LastRun(p) ==
    /\ proc[p].pc = "done"
    /\ \A q \in Procs : (q > p /\ proc[q].pc # "idle") => proc[q].doc # proc[p].doc

\* C5: after a second successful process_pdf_document for a document (its
\* first run succeeded too, nothing deleted the chunks in between), the number
\* of index entries tagged with the document is the chunk count of the second
\* run.
C5_ReingestSupersedes ==
    \A p \in Procs :
        ( /\ LastRun(p) /\ proc[p].rerun /\ proc[p].result = "true"
          /\ \E q \in Procs : q < p /\ proc[q].doc = proc[p].doc /\ proc[q].result = "true"
          /\ del[proc[p].doc].pc = "idle" )
        => Cardinality(IndexGetIds(index, proc[p].doc)) = Len(proc[p].chunks)

\* The entries tagged d are exactly the chunks of the run in slot p.
CompleteRun(d, p) ==
    /\ proc[p].doc = d
    /\ proc[p].pc \in {"registry", "done"}
    /\ IndexGetIds(index, d) = {ChunkId(d, i) : i \in 0..(Len(proc[p].chunks) - 1)}
    /\ \A i \in 0..(Len(proc[p].chunks) - 1) :
          /\ index[ChunkId(d, i)].text = proc[p].chunks[i + 1]
          /\ index[ChunkId(d, i)].meta.chunk_index = i

C7_TrueMeansProcessed ==
    [][\A p \in Procs :
          (proc[p].pc = "registry" /\ proc'[p].pc = "done" /\ proc'[p].result = "true")
          => /\ docs'[proc[p].doc].row = "present"
             /\ docs'[proc[p].doc].is_processed
             /\ docs'[proc[p].doc].chunk_count = Len(proc[p].chunks)]_vars

NotProcessed(d) ==
    docs[d].row = "present" => (~docs[d].is_processed /\ docs[d].chunk_count = 0)

\* C8: a call in which extraction, chunking, embedding or the insert raised
\* has returned False and left the row non-processed.
C8_AnyRaiseFails ==
    \A p \in Procs :
        (proc[p].pc = "done" /\ proc[p].raised \in {"extract", "chunk", "encode", "add"})
        => (proc[p].result = "false" /\ NotProcessed(proc[p].doc))

\* C9: a call whose extracted text is empty or whitespace-only has returned
\* False, has put nothing into the index and has left the row non-processed.
C9_BlankTextFails ==
    \A p \in Procs :
        proc[p].blank =>
            /\ proc[p].pc = "done" /\ proc[p].result = "false"
            /\ IndexGetIds(index, proc[p].doc) = {}
            /\ NotProcessed(proc[p].doc)

C9_Witness ==
    \E p \in Procs : proc[p].blank /\ proc[p].pc = "done" /\ docs[proc[p].doc].row = "present"

LoopAgrees ==
    cpc = "returned" =>
        chunks = ChunkLoop(text, chunk_size, chunk_overlap, 0, <<>>, {}).chunks

\* C11: a search_similar_documents or get_relevant_context call made while
\* the index holds no entries returns normally with an empty list, for every
\* query, n_results and category filter, whether or not the index call raises.
C11_EmptyIndexEmptyResult ==
    (index = EmptyIndex /\ search.pc \in {"returned", "propagated"}) =>
        /\ search.pc = "returned"
        /\ search.results = <<>>
        /\ search.context = <<>>

C11_Witness ==
    /\ index = EmptyIndex
    /\ search.pc = "returned"
    /\ search.via = "context"
    /\ search.filter # "none"
    /\ ~search.raised

\* The stored entries that pass the filter of the running call.
Matching == {id \in DOMAIN index : Matches(index[id], search.filter)}

\* C12: a call whose index query did not raise returns the entries the query
\* returned, text k with metadata k and distance k, nearest first, at most
\* n_results of them (all matching entries when fewer exist), only entries of
\* the category asked for; get_relevant_context returns their texts in the
\* same order.
C12_RankedTopK ==
    (search.pc = "returned" /\ ~search.raised) =>
        LET hits == search.hits
            n == Len(hits)
        IN /\ Len(search.results) = n
           /\ \A k \in 1..n :
                 /\ search.results[k].text = index[hits[k]].text
                 /\ search.results[k].meta = index[hits[k]].meta
                 /\ search.results[k].similarity_score
                        = 1 - Distance(search.query, index[hits[k]].text)
                 /\ hits[k] \in Matching
           /\ \A j, k \in 1..n :
                 j < k => /\ hits[j] # hits[k]
                          /\ Distance(search.query, index[hits[j]].text)
                                <= Distance(search.query, index[hits[k]].text)
           /\ n = Min(search.n_results, Cardinality(Matching))
           /\ \A id \in Matching \ {hits[k] : k \in 1..n} :
                 \A k \in 1..n : Distance(search.query, index[hits[k]].text)
                                    <= Distance(search.query, index[id].text)
           /\ search.via = "context" =>
                 /\ search.n_results = TOP_K_RESULTS
                 /\ Len(search.context) = n
                 /\ \A k \in 1..n : search.context[k] = index[hits[k]].text

C12_Witness ==
    /\ search.pc = "returned" /\ ~search.raised
    /\ search.via = "context" /\ search.filter # "none"
    /\ Len(search.context) >= 2
    /\ search.context[1] # search.context[2]
    /\ Cardinality(Matching) < Cardinality(DOMAIN index)

\* C17: a call whose index call raised reports the failure to its caller: it
\* does not return normally with the value it returns when nothing matches.
C17_FailureReported ==
    (search.pc \in {"returned", "propagated"} /\ search.raised) =>
        ~(search.pc = "returned" /\ search.results = <<>> /\ search.context = <<>>)

\* C13: delete_document_chunks returns True exactly when no index call
\* raised, also when no entry is tagged with the document; of two calls in a
\* row for one document in which nothing raised, both return True and the
\* second leaves the index as the first left it, with no entry of the document.
C13_IdempotentDelete ==
    /\ \A k \in 1..Len(removal.log) : removal.log[k].result = ~removal.log[k].raised
    /\ \A k \in 1..(Len(removal.log) - 1) :
          LET a == removal.log[k]
              b == removal.log[k + 1]
          IN (a.doc = b.doc /\ ~a.raised /\ ~b.raised) =>
                /\ a.result /\ b.result
                /\ b.after = a.after
                /\ b.deleted = {}
                /\ IndexGetIds(b.after, b.doc) = {}

C13_Witness ==
    /\ Len(removal.log) >= 2
    /\ removal.log[1].doc = removal.log[2].doc
    /\ ~removal.log[1].raised /\ ~removal.log[2].raised
    /\ Cardinality(removal.log[1].deleted) >= 2
    /\ removal.log[2].after # EmptyIndex

\* C14: when a process_pdf_document call inserts while another call for the
\* same document, which has inserted already, is still running, the insert
\* succeeds and afterwards every chunk id of its batch holds the entry it wrote
\* (last write wins per id).
C14_LastWriteWins ==
    [][\A p \in Procs :
          ( /\ proc[p].pc = "add" /\ proc'[p].pc = "registry"
            /\ \E q \in Procs \ {p} : proc[q].doc = proc[p].doc /\ proc[q].pc = "registry" )
          => \A i \in 0..(Len(proc[p].chunks) - 1) :
                index'[ChunkId(proc[p].doc, i)] =
                    [text |-> proc[p].chunks[i + 1],
                     meta |-> ChunkMetadata(proc[p].doc, i, proc[p].path, proc[p].meta)]]_vars

\* C15: at most one RAGService instance is ever created in the process, and
\* the upload/delete handlers and the chat handlers use the same instance.
C15_SingleInstance ==
    /\ services.created <= 1
    /\ (services.api # 0 /\ services.chat # 0) => services.api = services.chat

\* C16: the row of a document shows "processing" while process_pdf_document
\* runs for it, "failed" after the call has returned False and "processed"
\* after it has returned True.
C16_ObservableStates ==
    \A p \in Procs :
        (proc[p].doc \in DocIds /\ docs[proc[p].doc].row = "present") =>
            LET status == DocStatus(docs[proc[p].doc])
            IN /\ proc[p].pc \in {"extract", "add", "registry"} => status = "processing"
               /\ (proc[p].pc = "done" /\ proc[p].result = "false") => status = "failed"
               /\ (proc[p].pc = "done" /\ proc[p].result = "true") => status = "processed"

\* C18: with a valid configuration a call on an empty or whitespace-only
\* text appends no chunk, never repeats a start offset and raises nothing: it
\* returns the empty list.
C18_BlankGivesNoChunks ==
    (cpc # "idle" /\ ValidConfig /\ IsBlank(text)) =>
        /\ chunks = <<>>
        /\ ~Hangs
        /\ cpc \in {"loop", "returned"}

C18_Witness ==
    /\ cpc = "returned" /\ ValidConfig /\ IsBlank(text)
    /\ Len(text) > chunk_size /\ chunk_overlap > 0
    /\ chunks = <<>>

\* C19: with a valid configuration every chunk a call returns is non-empty,
\* trimmed, and at most chunk_size characters long.
C19_ChunkBounds ==
    (cpc \in {"returned", "except"} /\ ValidConfig) =>
        \A k \in 1..Len(chunks) :
            /\ chunks[k] # <<>>
            /\ Strip(chunks[k]) = chunks[k]
            /\ Len(chunks[k]) <= chunk_size

\* C19 for the calls whose loop ended.
C19_LoopChunkBounds ==
    (cpc = "returned" /\ ValidConfig) =>
        \A k \in 1..Len(chunks) :
            /\ chunks[k] # <<>>
            /\ Strip(chunks[k]) = chunks[k]
            /\ Len(chunks[k]) <= chunk_size

NoEarlySentenceEnd ==
    \A p \in 1..(2 * ProseConfig.chunk_size - ProseConfig.chunk_overlap) :
        p <= Len(text) => text[p] \notin SentenceEnd

PageSlots(T) == Cardinality({i \in 1..Len(T) : T[i] = "\n"})

\* C21: the text _extract_text_from_pdf concatenates has one slot (text and
\* separator) per page of the PDF, pages without text included.
C21_PageSlots ==
    epc \in {"chunking", "returned"} => PageSlots(full_text) = Len(pdf_pages)

\* C23: with chunk_size > 0 and 0 <= overlap < chunk_size every iteration of
\* the loop of _chunk_text sets a start offset strictly greater than the one
\* it began at, so start is never negative and lies beyond the start offset
\* of every iteration run so far.
C23_StartAdvances ==
    (cpc = "loop" /\ ValidConfig) => (start >= 0 /\ \A v \in visited : v < start)

\* The window text[start : start + chunk_size] of the current iteration.
Window == PySlice(text, start, start + chunk_size)

\* The 1-based positions within the window of its sentence-terminal characters.
SentenceEndsInWindow == {i \in 1..Len(Window) : Window[i] \in SentenceEnd}

\* The end offset the chunk of the current iteration is to have: just after
\* the last sentence-terminal character of the window when the window stops
\* short of the end of the text and holds one, start + chunk_size otherwise.
SnappedEnd ==
    IF start + chunk_size < Len(text) /\ SentenceEndsInWindow # {}
    THEN start + (CHOOSE i \in SentenceEndsInWindow : \A j \in SentenceEndsInWindow : i >= j)
    ELSE start + chunk_size

Quiescent ==
    /\ \A p \in Procs : proc[p].pc \in {"idle", "done"}
    /\ \A d \in DocIds : del[d].pc \in {"idle", "done"}

\* C25: when no request is in progress, every entry of the vector index is
\* tagged with the id of a Document row that still exists.
C25_NoOrphanedChunks ==
    Quiescent =>
        \A id \in DOMAIN index :
            LET d == index[id].meta.document_id
            IN d \in DocIds /\ docs[d].row = "present"

\* C26: when no request is in progress, a row with is_processed = True has
\* chunk_count >= 1 equal to the number of index entries tagged with its id,
\* and a row with is_processed = False has no entry in the index.
C26_RegistryMatchesIndex ==
    Quiescent =>
        \A d \in DocIds :
            docs[d].row = "present" =>
                IF docs[d].is_processed
                THEN /\ docs[d].chunk_count >= 1
                     /\ docs[d].chunk_count = Cardinality(IndexGetIds(index, d))
                ELSE IndexGetIds(index, d) = {}

\* The ids process_pdf_document gives the chunks of document d.
ChunkIdsOf(d) == {ChunkId(d, k) : k \in 0..MemCap}

\* C27: every entry process_pdf_document(file_path, D, metadata) has stored
\* carries document_id = D, chunk_index = its position and source_file =
\* file_path, whatever the metadata argument holds, and so a call of
\* delete_document_chunks(D) that succeeds leaves no entry with an id
\* D_chunk_k in the index.
C27_StoredMetadata ==
    /\ \A d \in LibraryDocs : \A k \in 0..MemCap :
          ChunkId(d, k) \in DOMAIN index =>
              /\ index[ChunkId(d, k)].meta.document_id = d
              /\ index[ChunkId(d, k)].meta.chunk_index = k
              /\ index[ChunkId(d, k)].meta.source_file = FilePath(d)
    /\ \A n \in 1..Len(removal.log) :
          removal.log[n].result =>
              ChunkIdsOf(removal.log[n].doc) \cap DOMAIN removal.log[n].after = {}

\* The step is one of a process_pdf_document(.., d, ..) call or of a
\* delete_document_chunks(d) call.
StepOfCallFor(d) ==
    \/ \E p \in Procs : /\ proc[p].doc = d
                        /\ proc[p].pc \in {"extract", "add", "registry"}
                        /\ proc'[p] # proc[p]
    \/ /\ removal.pc \in {"get", "delete"}
       /\ removal.doc = d
       /\ removal' # removal

\* C28: a step of process_pdf_document(D) or of delete_document_chunks(D)
\* leaves the index entries (id, text, metadata) and the Document row of
\* every other document as they were.
C28_OtherDocumentsUntouched ==
    [][\A d \in LibraryDocs :
          StepOfCallFor(d) =>
              \A other \in LibraryDocs \ {d} :
                  /\ docs'[other] = docs[other]
                  /\ \A id \in ChunkIdsOf(other) :
                        /\ id \in DOMAIN index <=> id \in DOMAIN index'
                        /\ id \in DOMAIN index => index'[id] = index[id]]_vars

\* A send_message request with a non-empty message for a session whose id
\* create_chat_session returned has finished.
AnsweredRequest(r) ==
    /\ chat[r].pc = "done"
    /\ chat[r].created
    /\ chat[r].content # <<>>

MessageCount(s, t) ==
    Cardinality({i \in 1..Len(messages) :
                    messages[i].session_id = s /\ messages[i].message_type = t})

\* C29: every assistant message follows the committed user message of the
\* same send_message request, so no session has more assistant than user
\* messages, and a request answered with 400 or 404 has written no message.
C29_AssistantAfterUser ==
    /\ \A i \in 1..Len(messages) :
          messages[i].message_type = "assistant" =>
              \E j \in 1..(i - 1) :
                  /\ messages[j].message_type = "user"
                  /\ messages[j].request = messages[i].request
                  /\ messages[j].session_id = messages[i].session_id
    /\ \A s \in SessionIds : MessageCount(s, "assistant") <= MessageCount(s, "user")
    /\ \A r \in Requests :
          chat[r].status \in {"400", "404"} =>
              \A i \in 1..Len(messages) : messages[i].request # r

\* One request has its user and assistant messages stored and another was
\* rejected with 400 or 404.
C29_Witness ==
    \E r1, r2 \in Requests :
        /\ chat[r1].status = "200"
        /\ \E i \in 1..Len(messages) :
              messages[i].request = r1 /\ messages[i].message_type = "assistant"
        /\ chat[r2].status \in {"400", "404"}

====
